---- MODULE Spec2Model ----
(***************************************************************************)
(* Tag purge task of docker-registry-ui: PurgeOldTags and analyzeRepo.     *)
(* Two variants of the task are modelled side by side:                     *)
(*   "single"  registry/tasks.go  one tag regex per purge rule             *)
(*   "multi"   unnamed/part_000   a list of tag rules per purge rule       *)
(* Names are sequences of one-character strings, times are whole hours.    *)
(***************************************************************************)
EXTENDS Integers, Sequences, FiniteSets, TLC

VARIABLES
    variant,                 \* which of the two source files runs
    purgeDryRun,             \* argument of PurgeOldTags
    purgeTagsKeepDays,       \* argument of PurgeOldTags (global default)
    purgeTagsKeepCount,      \* argument of PurgeOldTags (global default)
    purgeTagsConfig,         \* argument of PurgeOldTags, then with the global rule appended
    registry,                \* what the Client answers: catalog, tags, creation times
    catalog,                 \* repositories still to analyze, in iteration order
    now,                     \* time.Now().UTC() taken once per run
    pc,                      \* position of the run
    repo,                    \* analyzeRepo: full name of the repository
    purgeConfig,             \* analyzeRepo: resolved purge rule, or Nil
    tags,                    \* analyzeRepo: client.Tags(repo)
    tagsFromRepo,            \* analyzeRepo: timeSlice (single) or map TagConfig -> timeSlice (multi)
    pending,                 \* multi: keys of tagsFromRepo the range loop has not visited
    tagConfig,               \* multi: key of the current range iteration
    groupTags,               \* multi: value of the current range iteration (loop variable tags)
    keepTagsForThisConfig,   \* multi: keep list of the current iteration
    purgeTagsForThisConfig,  \* multi: purge list of the current iteration
    keepTags,                \* analyzeRepo: keep list
    purgeTags,               \* analyzeRepo: purge list
    deleteCalls,             \* client.DeleteTag requests issued for the current repository
    result                   \* how the last analyzeRepo call ended

vars == <<variant, purgeDryRun, purgeTagsKeepDays, purgeTagsKeepCount, purgeTagsConfig,
          registry, catalog, now, pc, repo, purgeConfig, tags, tagsFromRepo, pending,
          tagConfig, groupTags, keepTagsForThisConfig, purgeTagsForThisConfig,
          keepTags, purgeTags, deleteCalls, result>>

(***************************************************************************)
(* Bounds of the model.                                                    *)
(***************************************************************************)
MaxRules == 2
MaxTags == 4

\* a pointer is the empty tuple (nil) or the one-tuple of what it points to
Nil == <<>>
Ref(c) == <<c>>
Deref(ptr) == ptr[1]

(***************************************************************************)
(* Regular expressions.  A pattern is kept by its meaning: the literal it  *)
(* searches, how it is anchored, or that it does not compile.              *)
(***************************************************************************)
Substr(b) == [kind |-> "substr", body |-> b]   \* "b"
Prefix(b) == [kind |-> "prefix", body |-> b]   \* "^b"
Full(b) == [kind |-> "full", body |-> b]       \* "^b$"
All == [kind |-> "all", body |-> <<>>]         \* ".*"
Bad == [kind |-> "bad", body |-> <<>>]         \* "(" : missing closing parenthesis

\* regexp.Compile: err == nil
Compile(re) == re.kind # "bad"

\* re.FindStringIndex(s) != nil : the pattern matches somewhere in s
FindStringIndex(re, s) ==
    CASE re.kind = "all" -> TRUE
      [] re.kind = "substr" ->
            \E i \in 1..(Len(s) - Len(re.body) + 1) :
                SubSeq(s, i, i + Len(re.body) - 1) = re.body
      [] re.kind = "prefix" ->
            Len(s) >= Len(re.body) /\ SubSeq(s, 1, Len(re.body)) = re.body
      [] re.kind = "full" -> s = re.body
      [] OTHER -> FALSE

(***************************************************************************)
(* PurgeOldTags                                                            *)
(***************************************************************************)
\* The global configuration appended at the end of purgeTagsConfig.
GlobalConfig(v, keepDays, keepCount) ==
    IF v = "single"
    THEN [RepoRegex |-> All, TagsRegex |-> All,
          TagsKeepDays |-> keepDays, TagsKeepCount |-> keepCount]
    ELSE [RepoRegex |-> All,
          Tags |-> <<[TagsRegex |-> All, TagsKeepDays |-> keepDays,
                      TagsKeepCount |-> keepCount]>>]

\* time.Now().UTC(), in hours
UtcNow == 24 * 400

\* the default namespace, whose repositories carry no prefix
Library == <<"l", "i", "b", "r", "a", "r", "y">>

\* repo = fmt.Sprintf("%s/%s", namespace, repo) unless namespace is "library"
FullName(namespace, name) ==
    IF namespace # Library THEN namespace \o <<"/">> \o name ELSE name

(***************************************************************************)
(* analyzeRepo: rule resolution                                            *)
(***************************************************************************)
NoMatch == [err |-> FALSE, found |-> FALSE, config |-> Nil]
RegexError == [err |-> TRUE, found |-> FALSE, config |-> Nil]
Found(c) == [err |-> FALSE, found |-> TRUE, config |-> Ref(c)]

\* for _, config := range purgeTagsConfig: first rule whose RepoRegex matches
\* the repository; a regex that does not compile ends analyzeRepo.
RECURSIVE MatchRepoFrom(_, _, _)
MatchRepoFrom(configs, r, i) ==
    IF i > Len(configs) THEN NoMatch
    ELSE IF ~Compile(configs[i].RepoRegex) THEN RegexError
    ELSE IF FindStringIndex(configs[i].RepoRegex, r) THEN Found(configs[i])
    ELSE MatchRepoFrom(configs, r, i + 1)

\* Variant of the loop without its break: the last matching rule wins.
RECURSIVE MatchRepoLastFrom(_, _, _, _)
MatchRepoLastFrom(configs, r, i, last) ==
    IF i > Len(configs) THEN last
    ELSE IF ~Compile(configs[i].RepoRegex) THEN RegexError
    ELSE IF FindStringIndex(configs[i].RepoRegex, r)
         THEN MatchRepoLastFrom(configs, r, i + 1, Found(configs[i]))
    ELSE MatchRepoLastFrom(configs, r, i + 1, last)

MatchRepoLast(configs, r) == MatchRepoLastFrom(configs, r, 1, NoMatch)

\* Variant of the loop that goes on to the next rule when a regex does not compile.
RECURSIVE MatchRepoSkipFrom(_, _, _)
MatchRepoSkipFrom(configs, r, i) ==
    IF i > Len(configs) THEN NoMatch
    ELSE IF ~Compile(configs[i].RepoRegex) THEN MatchRepoSkipFrom(configs, r, i + 1)
    ELSE IF FindStringIndex(configs[i].RepoRegex, r) THEN Found(configs[i])
    ELSE MatchRepoSkipFrom(configs, r, i + 1)

MatchRepoSkipMalformed(configs, r) == MatchRepoSkipFrom(configs, r, 1)

MatchRepo(configs, r) == MatchRepoFrom(configs, r, 1)

\* multi: for _, tagConfig := range purgeConfig.Tags: first tag rule whose
\* TagsRegex matches the tag.
RECURSIVE SelectTagConfigFrom(_, _, _)
SelectTagConfigFrom(tagConfigs, tag, i) ==
    IF i > Len(tagConfigs) THEN NoMatch
    ELSE IF ~Compile(tagConfigs[i].TagsRegex) THEN RegexError
    ELSE IF FindStringIndex(tagConfigs[i].TagsRegex, tag) THEN Found(tagConfigs[i])
    ELSE SelectTagConfigFrom(tagConfigs, tag, i + 1)

\* Variant that gives a tag no rule matches the last tag rule of the list.
SelectTagConfigOrLast(tagConfigs, tag) ==
    LET m == SelectTagConfigFrom(tagConfigs, tag, 1)
    IN IF ~m.err /\ ~m.found /\ Compile(tagConfigs[Len(tagConfigs)].TagsRegex)
       THEN Found(tagConfigs[Len(tagConfigs)])
       ELSE m

SelectTagConfig(tagConfigs, tag) == SelectTagConfigFrom(tagConfigs, tag, 1)

\* single: the one TagsRegex of the resolved rule, compiled for every tag.
MatchTag(config, tag) ==
    IF ~Compile(config.TagsRegex) THEN RegexError
    ELSE IF FindStringIndex(config.TagsRegex, tag) THEN Found(config)
    ELSE NoMatch

(***************************************************************************)
(* analyzeRepo: the Client                                                 *)
(***************************************************************************)
\* client.Tags(repo)
ClientTags(r) == registry.tags[r]

\* _, infoV1, _ := client.TagInfo(repo, tag, true): the manifest v1 of the tag,
\* kept as the one field read from it; Missing is infoV1 == ""
Missing == <<>>
Manifest(created) == <<created>>
TagInfo(r, tag) == registry.created[r][tag]

\* gjson.Get(gjson.Get(infoV1, "history.0.v1Compatibility").String(), "created").Time()
CreatedOf(infoV1) == infoV1[1]

TagData(tag, created) == [name |-> tag, created |-> created]

(***************************************************************************)
(* analyzeRepo: the loop over the tags                                     *)
(***************************************************************************)
\* single: tagsFromRepo = append(tagsFromRepo, tagData{...})
RECURSIVE ScanTagsSingle(_, _, _, _, _)
ScanTagsSingle(r, config, ts, i, acc) ==
    IF i > Len(ts) THEN [err |-> FALSE, tagsFromRepo |-> acc]
    ELSE LET m == MatchTag(config, ts[i]) IN
         IF m.err THEN [err |-> TRUE, tagsFromRepo |-> acc]
         ELSE IF ~m.found THEN ScanTagsSingle(r, config, ts, i + 1, acc)
         ELSE IF TagInfo(r, ts[i]) = Missing THEN ScanTagsSingle(r, config, ts, i + 1, acc)
         ELSE ScanTagsSingle(r, config, ts, i + 1,
                             Append(acc, TagData(ts[i], CreatedOf(TagInfo(r, ts[i])))))

\* multi: tagsFromRepo[*selectedTagConfig] = append(tagsFromRepo[*selectedTagConfig], ...)
MapAppend(m, key, td) ==
    IF key \in DOMAIN m
    THEN [m EXCEPT ![key] = Append(@, td)]
    ELSE [k \in (DOMAIN m) \cup {key} |-> IF k = key THEN <<td>> ELSE m[k]]

RECURSIVE ScanTagsMulti(_, _, _, _, _)
ScanTagsMulti(r, config, ts, i, acc) ==
    IF i > Len(ts) THEN [err |-> FALSE, tagsFromRepo |-> acc]
    ELSE LET m == SelectTagConfig(config.Tags, ts[i]) IN
         IF m.err THEN [err |-> TRUE, tagsFromRepo |-> acc]
         ELSE IF ~m.found THEN ScanTagsMulti(r, config, ts, i + 1, acc)
         ELSE IF TagInfo(r, ts[i]) = Missing THEN ScanTagsMulti(r, config, ts, i + 1, acc)
         ELSE ScanTagsMulti(r, config, ts, i + 1,
                            MapAppend(acc, Deref(m.config),
                                      TagData(ts[i], CreatedOf(TagInfo(r, ts[i])))))

(***************************************************************************)
(* analyzeRepo: sort, retention days, minimal count                        *)
(***************************************************************************)
\* timeSlice.Less: p[i].created.After(p[j].created)
Less(a, b) == a.created > b.created

\* sort.Sort(sortedTags): some permutation in which no later element is Less
\* than an earlier one; sort.Sort is not stable, equal elements come in any order.
SortSort(ts) ==
    { s \in { [i \in 1..Len(ts) |-> ts[p[i]]] : p \in Permutations(1..Len(ts)) } :
        \A i, j \in 1..Len(ts) : i < j => ~Less(s[j], s[i]) }

\* int(x): conversion of a float to int truncates toward zero
TruncDiv(a, b) == IF a >= 0 THEN a \div b ELSE -((-a) \div b)

\* delta := int(now.Sub(tag.created).Hours() / 24)
Delta(t, created) == TruncDiv(t - created, 24)

Names(ts) == [i \in 1..Len(ts) |-> ts[i].name]

\* Variant comparing with >= : a tag of exactly keepDays days is purged.
FilterByDaysAtLeast(ts, t, keepDays) ==
    [purge |-> Names(SelectSeq(ts, LAMBDA d : Delta(t, d.created) >= keepDays)),
     keep |-> Names(SelectSeq(ts, LAMBDA d : ~(Delta(t, d.created) >= keepDays)))]

\* Filter out tags by retention days.
FilterByDays(ts, t, keepDays) ==
    [purge |-> Names(SelectSeq(ts, LAMBDA d : Delta(t, d.created) > keepDays)),
     keep |-> Names(SelectSeq(ts, LAMBDA d : ~(Delta(t, d.created) > keepDays)))]

\* Variant rescuing only the shortfall, keepCount less the tags kept by age.
KeepShortfall(n, keep, purge, keepCount) ==
    LET shortfall == IF keepCount - (n - Len(purge)) > Len(purge) THEN Len(purge)
                     ELSE keepCount - (n - Len(purge))
    IN IF n - Len(purge) < keepCount
       THEN [keep |-> keep \o SubSeq(purge, 1, shortfall),
             purge |-> SubSeq(purge, shortfall + 1, Len(purge))]
       ELSE [keep |-> keep, purge |-> purge]

\* Variant slicing one entry short: purgeTags[:keepCount-1].
KeepOneLess(n, keep, purge, keepCount) ==
    IF n - Len(purge) < keepCount
    THEN IF Len(purge) > keepCount
         THEN [keep |-> keep \o SubSeq(purge, 1, keepCount - 1),
               purge |-> SubSeq(purge, keepCount, Len(purge))]
         ELSE [keep |-> keep \o purge, purge |-> <<>>]
    ELSE [keep |-> keep, purge |-> purge]

\* Variant that appends the rescued tags to keep and leaves them in purge.
KeepWithoutRemoving(n, keep, purge, keepCount) ==
    IF n - Len(purge) < keepCount
    THEN IF Len(purge) > keepCount
         THEN [keep |-> keep \o SubSeq(purge, 1, keepCount), purge |-> purge]
         ELSE [keep |-> keep \o purge, purge |-> <<>>]
    ELSE [keep |-> keep, purge |-> purge]

\* Keep minimal count of tags no matter how old they are.
KeepMinimalCount(n, keep, purge, keepCount) ==
    IF n - Len(purge) < keepCount
    THEN IF Len(purge) > keepCount
         THEN [keep |-> keep \o SubSeq(purge, 1, keepCount),
               purge |-> SubSeq(purge, keepCount + 1, Len(purge))]
         ELSE [keep |-> keep \o purge, purge |-> <<>>]
    ELSE [keep |-> keep, purge |-> purge]

(***************************************************************************)
(* analyzeRepo: the delete requests                                        *)
(***************************************************************************)
DeleteTag(r, tag) == [repo |-> r, tag |-> tag]

\* single: for _, repo := range purgeTags { ...; for _, tag := range purgeTags
\* { client.DeleteTag(repo, tag) } } : the outer loop variable shadows repo.
RECURSIVE Flatten(_)
Flatten(ss) == IF ss = <<>> THEN <<>> ELSE Head(ss) \o Flatten(Tail(ss))

DeleteRequestsSingle(dryRun, r, purge) ==
    Flatten([i \in 1..Len(purge) |->
                IF dryRun THEN <<>>
                ELSE [j \in 1..Len(purge) |-> DeleteTag(purge[i], purge[j])]])

\* Variant without the continue of the dry run.
DeleteRequestsAlways(dryRun, r, purge) ==
    [i \in 1..Len(purge) |-> DeleteTag(r, purge[i])]

\* multi: for _, tag := range purgeTags { ...; client.DeleteTag(repo, tag) }
DeleteRequestsMulti(dryRun, r, purge) ==
    Flatten([i \in 1..Len(purge) |->
                IF dryRun THEN <<>> ELSE <<DeleteTag(r, purge[i])>>])

(***************************************************************************)
(* PurgeOldTags: the catalog                                               *)
(***************************************************************************)
Entries(cat, ns) == [i \in 1..Len(cat[ns]) |-> [namespace |-> ns, name |-> cat[ns][i]]]

\* for namespace := range catalog { for _, repo := range catalog[namespace] }:
\* the namespaces of the map come in any order, the repositories of one in theirs.
CatalogOrders(cat) ==
    { Flatten([i \in DOMAIN p |-> Entries(cat, p[i])]) :
        p \in { q \in [1..Cardinality(DOMAIN cat) -> DOMAIN cat] :
                  \A i, j \in DOMAIN q : q[i] = q[j] => i = j } }

(***************************************************************************)
(* Inputs.                                                                 *)
(***************************************************************************)
RepoA == <<"a">>
RepoB == <<"b">>
NamespaceN == <<"n">>

TagPool == << <<"v", "1">>, <<"x">>, <<"v", "2">>, <<"v", "3">>, <<"v", "4">> >>

Created(ageDays, hours) == Manifest(UtcNow - (24 * ageDays + hours))

SeqsUpTo(S, n) == UNION { [1..k -> S] : k \in 0..n }

CatalogNames(cat) ==
    UNION { { FullName(ns, cat[ns][i]) : i \in DOMAIN cat[ns] } : ns \in DOMAIN cat }

\* A registry in which every repository of the catalog holds the same tags.
Registry(cat, ts, created) ==
    [catalog |-> cat,
     tags |-> [r \in CatalogNames(cat) |-> ts],
     created |-> [r \in CatalogNames(cat) |-> created]]

\* Rule resolution inputs -------------------------------------------------
TagRuleV == [TagsRegex |-> Prefix(<<"v">>), TagsKeepDays |-> 30, TagsKeepCount |-> 0]
TagRuleOne == [TagsRegex |-> Substr(<<"1">>), TagsKeepDays |-> 30, TagsKeepCount |-> 1]
TagRuleBad == [TagsRegex |-> Bad, TagsKeepDays |-> 30, TagsKeepCount |-> 0]

RepoRegexes == {Substr(RepoA), Full(RepoA), Bad}

TagRuleLists ==
    {<<TagRuleV>>, <<TagRuleOne, TagRuleV>>, <<TagRuleV, TagRuleBad>>,
     <<TagRuleBad, TagRuleV>>}

FlatConfig(rr, t) ==
    [RepoRegex |-> rr, TagsRegex |-> t.TagsRegex, TagsKeepDays |-> t.TagsKeepDays,
     TagsKeepCount |-> t.TagsKeepCount]

PurgeConfigs(v) ==
    IF v = "single"
    THEN { FlatConfig(rr, t) : rr \in RepoRegexes, t \in {TagRuleV, TagRuleOne, TagRuleBad} }
    ELSE { [RepoRegex |-> rr, Tags |-> ts] : rr \in RepoRegexes, ts \in TagRuleLists }

\* one repository "a", or the repositories "b" and "n/a"; each holds the tags
\* v1 (90 days old) and x (31 days old), listed in either order, or no tag at all
RuleRegistries ==
    { Registry(cat, ts, (TagPool[1] :> Created(90, 0)) @@ (TagPool[2] :> Created(31, 0))) :
        cat \in { (Library :> <<RepoA>>),
                  (Library :> <<RepoB>>) @@ (NamespaceN :> <<RepoA>>) },
        ts \in { <<TagPool[1], TagPool[2]>>, <<TagPool[2], TagPool[1]>>, <<>> } }

\* Retention inputs --------------------------------------------------------
KeepDaysSet == {30}
KeepCountSet == {0, 1, 2}

\* 30 days and 23 hours (kept by a 30 day rule), 31 days, 90 days
CreatedTimes == {Created(30, 23), Created(31, 0), Created(90, 0)}

GroupConfigs(v) ==
    IF v = "single"
    THEN { <<>>, <<FlatConfig(Substr(RepoA), TagRuleOne)>> }
    ELSE { <<>>,
           <<[RepoRegex |-> Substr(RepoA),
              Tags |-> <<TagRuleOne,
                         [TagsRegex |-> Prefix(<<"v">>), TagsKeepDays |-> 60,
                          TagsKeepCount |-> 2]>>]>> }

\* the repository "a" with the first k tags of the pool, created at any of
\* the times or without a manifest v1
GroupRegistries ==
    UNION { { Registry((Library :> <<RepoA>>), SubSeq(TagPool, 1, k), created) :
                created \in [{TagPool[i] : i \in 1..k} -> CreatedTimes \cup {Missing}] } :
            k \in 0..MaxTags }

\* Scenario inputs: five tags aged 1, 10, 40, 90 and 200 days, listed by the
\* registry newest first, oldest first, or mixed; 30 days, floor of 2 or 4.
ScenarioAges == <<1, 10, 40, 90, 200>>
ScenarioCreated == [t \in {TagPool[i] : i \in 1..5} |->
                      Created(ScenarioAges[CHOOSE i \in 1..5 : TagPool[i] = t], 0)]
ScenarioOrders == { <<1, 2, 3, 4, 5>>, <<5, 4, 3, 2, 1>>, <<4, 1, 5, 3, 2>> }
ScenarioRegistries ==
    { Registry((Library :> <<RepoA>>), [i \in 1..5 |-> TagPool[o[i]]], ScenarioCreated) :
        o \in ScenarioOrders }

(***************************************************************************)
(* Initial states: the arguments of PurgeOldTags and the registry.         *)
(***************************************************************************)
InitLocals ==
    /\ catalog = <<>>
    /\ now = 0
    /\ pc = "start"
    /\ repo = <<>>
    /\ purgeConfig = Nil
    /\ tags = <<>>
    /\ tagsFromRepo = <<>>
    /\ pending = {}
    /\ tagConfig = Nil
    /\ groupTags = <<>>
    /\ keepTagsForThisConfig = <<>>
    /\ purgeTagsForThisConfig = <<>>
    /\ keepTags = <<>>
    /\ purgeTags = <<>>
    /\ deleteCalls = <<>>
    /\ result = "none"

InitRules ==
    /\ variant \in {"single", "multi"}
    /\ purgeDryRun \in BOOLEAN
    /\ purgeTagsKeepDays = 30
    /\ purgeTagsKeepCount = 0
    /\ purgeTagsConfig \in SeqsUpTo(PurgeConfigs(variant), MaxRules)
    /\ registry \in RuleRegistries

InitGroups ==
    /\ variant \in {"single", "multi"}
    /\ purgeDryRun \in BOOLEAN
    /\ purgeTagsKeepDays \in KeepDaysSet
    /\ purgeTagsKeepCount \in KeepCountSet
    /\ purgeTagsConfig \in GroupConfigs(variant)
    /\ registry \in GroupRegistries

InitScenario ==
    /\ variant \in {"single", "multi"}
    /\ purgeDryRun \in BOOLEAN
    /\ purgeTagsKeepDays = 30
    /\ purgeTagsKeepCount \in {2, 4}
    /\ purgeTagsConfig = <<>>
    /\ registry \in ScenarioRegistries

Init == (InitRules \/ InitGroups \/ InitScenario) /\ InitLocals

(***************************************************************************)
(* Actions.                                                                *)
(***************************************************************************)
Inputs == <<variant, purgeDryRun, purgeTagsKeepDays, purgeTagsKeepCount, registry>>
GroupLocals == <<pending, tagConfig, groupTags, keepTagsForThisConfig,
                 purgeTagsForThisConfig>>

\* PurgeOldTags up to its loop over the catalog
PurgeOldTags ==
    /\ pc = "start"
    /\ purgeTagsConfig' = Append(purgeTagsConfig,
                                 GlobalConfig(variant, purgeTagsKeepDays, purgeTagsKeepCount))
    /\ catalog' \in CatalogOrders(registry.catalog)
    /\ now' = UtcNow
    /\ pc' = "loop"
    /\ UNCHANGED <<Inputs, GroupLocals, repo, purgeConfig, tags, tagsFromRepo, keepTags,
                   purgeTags, deleteCalls, result>>

\* analyzeRepo from its entry to the resolution of the purge rule
AnalyzeRepo ==
    /\ pc \in {"loop", "returned"}
    /\ catalog # <<>>
    /\ LET r == FullName(Head(catalog).namespace, Head(catalog).name)
           m == MatchRepo(purgeTagsConfig, r)
       IN /\ repo' = r
          /\ purgeConfig' = m.config
          /\ pc' = IF m.found THEN "tags" ELSE "returned"
          /\ result' = IF m.err THEN "regexError"
                       ELSE IF ~m.found THEN "noMatch" ELSE "running"
    /\ catalog' = Tail(catalog)
    /\ tags' = <<>>
    /\ tagsFromRepo' = <<>>
    /\ pending' = {}
    /\ tagConfig' = Nil
    /\ groupTags' = <<>>
    /\ keepTagsForThisConfig' = <<>>
    /\ purgeTagsForThisConfig' = <<>>
    /\ keepTags' = <<>>
    /\ purgeTags' = <<>>
    /\ deleteCalls' = <<>>
    /\ UNCHANGED <<Inputs, purgeTagsConfig, now>>

\* tags := client.Tags(repo); if len(tags) == 0 { return }
ListTags ==
    /\ pc = "tags"
    /\ tags' = ClientTags(repo)
    /\ pc' = IF Len(tags') = 0 THEN "returned" ELSE "scan"
    /\ result' = IF Len(tags') = 0 THEN "noTags" ELSE result
    /\ UNCHANGED <<Inputs, GroupLocals, purgeTagsConfig, catalog, now, repo, purgeConfig,
                   tagsFromRepo, keepTags, purgeTags, deleteCalls>>

\* single: for _, tag := range tags
ScanSingle ==
    /\ pc = "scan"
    /\ variant = "single"
    /\ LET s == ScanTagsSingle(repo, Deref(purgeConfig), tags, 1, <<>>)
       IN /\ tagsFromRepo' = s.tagsFromRepo
          /\ pc' = IF s.err THEN "returned" ELSE "filter"
          /\ result' = IF s.err THEN "regexError" ELSE result
    /\ UNCHANGED <<Inputs, GroupLocals, purgeTagsConfig, catalog, now, repo, purgeConfig,
                   tags, keepTags, purgeTags, deleteCalls>>

\* multi: for _, tag := range tags
ScanMulti ==
    /\ pc = "scan"
    /\ variant = "multi"
    /\ LET s == ScanTagsMulti(repo, Deref(purgeConfig), tags, 1, <<>>)
       IN /\ tagsFromRepo' = s.tagsFromRepo
          /\ pending' = IF s.err THEN {} ELSE DOMAIN s.tagsFromRepo
          /\ pc' = IF s.err THEN "returned"
                   ELSE IF DOMAIN s.tagsFromRepo = {} THEN "apply" ELSE "groups"
          /\ result' = IF s.err THEN "regexError" ELSE result
    /\ UNCHANGED <<Inputs, purgeTagsConfig, catalog, now, repo, purgeConfig, tags,
                   tagConfig, groupTags, keepTagsForThisConfig, purgeTagsForThisConfig,
                   keepTags, purgeTags, deleteCalls>>

\* single: sort tagsFromRepo, then filter it by retention days
SortAndFilterSingle ==
    /\ pc = "filter"
    /\ \E sortedTags \in SortSort(tagsFromRepo) :
          LET f == FilterByDays(sortedTags, now, Deref(purgeConfig).TagsKeepDays)
          IN /\ tagsFromRepo' = sortedTags
             /\ purgeTags' = f.purge
             /\ keepTags' = f.keep
    /\ pc' = "floor"
    /\ UNCHANGED <<Inputs, GroupLocals, purgeTagsConfig, catalog, now, repo, purgeConfig,
                   tags, deleteCalls, result>>

\* single: keep the minimal count
KeepMinimalSingle ==
    /\ pc = "floor"
    /\ variant = "single"
    /\ LET k == KeepMinimalCount(Len(tagsFromRepo), keepTags, purgeTags,
                                 Deref(purgeConfig).TagsKeepCount)
       IN /\ keepTags' = k.keep
          /\ purgeTags' = k.purge
    /\ pc' = "apply"
    /\ UNCHANGED <<Inputs, GroupLocals, purgeTagsConfig, catalog, now, repo, purgeConfig,
                   tags, tagsFromRepo, deleteCalls, result>>

\* multi: one iteration of for tagConfig, tags := range tagsFromRepo, up to
\* the filter by retention days.  The sorted slice is stored in the map; the
\* filter ranges over the loop variable tags, which is the slice as scanned.
SortAndFilterMulti ==
    /\ pc = "groups"
    /\ \E key \in pending :
          \E sortedTags \in SortSort(tagsFromRepo[key]) :
             LET f == FilterByDays(tagsFromRepo[key], now, key.TagsKeepDays)
             IN /\ tagConfig' = Ref(key)
                /\ groupTags' = tagsFromRepo[key]
                /\ tagsFromRepo' = [tagsFromRepo EXCEPT ![key] = sortedTags]
                /\ purgeTagsForThisConfig' = f.purge
                /\ keepTagsForThisConfig' = f.keep
    /\ pc' = "floor"
    /\ UNCHANGED <<Inputs, purgeTagsConfig, catalog, now, repo, purgeConfig, tags, pending,
                   keepTags, purgeTags, deleteCalls, result>>

\* multi: the rest of the iteration: keep the minimal count, append the lists
KeepMinimalMulti ==
    /\ pc = "floor"
    /\ variant = "multi"
    /\ LET k == KeepMinimalCount(Len(groupTags), keepTagsForThisConfig,
                                 purgeTagsForThisConfig, Deref(tagConfig).TagsKeepCount)
       IN /\ keepTagsForThisConfig' = k.keep
          /\ purgeTagsForThisConfig' = k.purge
          /\ purgeTags' = purgeTags \o k.purge
          /\ keepTags' = keepTags \o k.keep
    /\ pending' = pending \ {Deref(tagConfig)}
    /\ pc' = IF pending' = {} THEN "apply" ELSE "groups"
    /\ UNCHANGED <<Inputs, purgeTagsConfig, catalog, now, repo, purgeConfig, tags,
                   tagsFromRepo, tagConfig, groupTags, deleteCalls, result>>

\* single: the purge loop
ApplySingle ==
    /\ pc = "apply"
    /\ variant = "single"
    /\ deleteCalls' = DeleteRequestsSingle(purgeDryRun, repo, purgeTags)
    /\ pc' = "returned"
    /\ result' = "analyzed"
    /\ UNCHANGED <<Inputs, GroupLocals, purgeTagsConfig, catalog, now, repo, purgeConfig,
                   tags, tagsFromRepo, keepTags, purgeTags>>

\* multi: the purge loop
ApplyMulti ==
    /\ pc = "apply"
    /\ variant = "multi"
    /\ deleteCalls' = DeleteRequestsMulti(purgeDryRun, repo, purgeTags)
    /\ pc' = "returned"
    /\ result' = "analyzed"
    /\ UNCHANGED <<Inputs, GroupLocals, purgeTagsConfig, catalog, now, repo, purgeConfig,
                   tags, tagsFromRepo, keepTags, purgeTags>>

\* PurgeOldTags: the catalog is exhausted
Done ==
    /\ pc \in {"loop", "returned"}
    /\ catalog = <<>>
    /\ pc' = "done"
    /\ UNCHANGED <<Inputs, GroupLocals, purgeTagsConfig, catalog, now, repo, purgeConfig,
                   tags, tagsFromRepo, keepTags, purgeTags, deleteCalls, result>>

Next ==
    \/ PurgeOldTags
    \/ AnalyzeRepo
    \/ ListTags
    \/ ScanSingle
    \/ ScanMulti
    \/ SortAndFilterSingle
    \/ KeepMinimalSingle
    \/ SortAndFilterMulti
    \/ KeepMinimalMulti
    \/ ApplySingle
    \/ ApplyMulti
    \/ Done

Spec == Init /\ [][Next]_vars

(***************************************************************************)
(* The retention group a state is working on, in either variant.           *)
(***************************************************************************)
SeqSet(s) == { s[i] : i \in DOMAIN s }
Min(a, b) == IF a < b THEN a ELSE b

Group == IF variant = "single" THEN tagsFromRepo ELSE groupTags
GroupKeep == IF variant = "single" THEN keepTags ELSE keepTagsForThisConfig
GroupPurge == IF variant = "single" THEN purgeTags ELSE purgeTagsForThisConfig
GroupKeepDays ==
    IF variant = "single" THEN Deref(purgeConfig).TagsKeepDays
    ELSE Deref(tagConfig).TagsKeepDays
GroupKeepCount ==
    IF variant = "single" THEN Deref(purgeConfig).TagsKeepCount
    ELSE Deref(tagConfig).TagsKeepCount

\* the age filter has run on the group, the minimal count has not
Filtered == pc = "floor"

\* the minimal count has run on the group
Partitioned ==
    \/ variant = "single" /\ (pc = "apply" \/ result = "analyzed")
    \/ variant = "multi" /\ tagConfig # Nil /\ pc # "floor"

\* analyzeRepo ran to its end
Analyzed == pc \in {"returned", "done"} /\ result = "analyzed"

CreatedIn(g, n) == g[CHOOSE i \in DOMAIN g : g[i].name = n].created
Stale(g, n, keepDays) == Delta(now, CreatedIn(g, n)) > keepDays
StaleNames(g, keepDays) == { n \in SeqSet(Names(g)) : Stale(g, n, keepDays) }


\* the tags the minimal count moved from the purge list to the keep list
Rescued == { n \in SeqSet(GroupKeep) : Stale(Group, n, GroupKeepDays) }

(***************************************************************************)
(* C2: the scenario of five tags aged 1, 10, 40, 90 and 200 days under a   *)
(* 30 day rule with a floor of 4.                                          *)
(***************************************************************************)
ScenarioB == registry \in ScenarioRegistries /\ purgeTagsKeepCount = 4

\* C2 as claimed: only the shortfall (4 - 2 = 2 tags) is rescued, so the tag
\* aged 200 days is purged and the other four are kept.
C2_ShortfallRescued ==
    (ScenarioB /\ Partitioned) =>
        /\ SeqSet(GroupPurge) = {TagPool[5]}
        /\ SeqSet(GroupKeep) = {TagPool[1], TagPool[2], TagPool[3], TagPool[4]}

\* C2 amended: when the age rule keeps fewer tags than keepCount, the first
\* keepCount entries of the tentative purge list are rescued if that list is
\* longer than keepCount, and the whole list otherwise; in the scenario the
\* three purge candidates are no more than 4, so nothing is purged and all
\* five tags are kept.
C2_FloorRescuesKeepCount ==
    Partitioned =>
        /\ ScenarioB =>
              /\ GroupPurge = <<>>
              /\ SeqSet(GroupKeep) = {TagPool[i] : i \in 1..5}
        /\ LET tentative == FilterByDays(Group, now, GroupKeepDays)
               stale == Len(tentative.purge)
               fresh == Len(tentative.keep)
           IN /\ Cardinality(Rescued) =
                    IF fresh >= GroupKeepCount THEN 0
                    ELSE IF stale > GroupKeepCount THEN GroupKeepCount ELSE stale
              /\ GroupPurge =
                    IF fresh >= GroupKeepCount THEN tentative.purge
                    ELSE IF stale > GroupKeepCount
                         THEN SubSeq(tentative.purge, GroupKeepCount + 1, stale)
                    ELSE <<>>

C2_Witness == ScenarioB /\ Analyzed /\ Len(Group) = 5 /\ Cardinality(Rescued) = 3

(***************************************************************************)
(* C3: the keep list of a group has at least min(keepCount, size of the    *)
(* group) entries, also when every tag is older than keepDays.             *)
(***************************************************************************)
C3_CountFloor ==
    Partitioned => Len(GroupKeep) >= Min(GroupKeepCount, Len(Group))

C3_Witness ==
    /\ Partitioned
    /\ Len(Group) >= 2
    /\ StaleNames(Group, GroupKeepDays) = SeqSet(Names(Group))
    /\ GroupKeepCount >= 1
    /\ GroupPurge # <<>>

(***************************************************************************)
(* C4: keep and purge split the group: every tag of the group is in        *)
(* exactly one of the two lists, once, before and after the minimal count. *)
(***************************************************************************)
C4_CompleteSplit ==
    (Filtered \/ Partitioned) =>
        /\ Len(GroupKeep) + Len(GroupPurge) = Len(Group)
        /\ SeqSet(GroupKeep) \cup SeqSet(GroupPurge) = SeqSet(Names(Group))
        /\ SeqSet(GroupKeep) \cap SeqSet(GroupPurge) = {}

C4_Witness ==
    /\ Partitioned
    /\ Rescued # {}
    /\ GroupPurge # <<>>
    /\ Len(GroupKeep) > Cardinality(Rescued)

(***************************************************************************)
(* C9: when the minimal count rescues some purge candidates and leaves     *)
(* others, every rescued tag is at least as new as every tag left purged.  *)
(***************************************************************************)
C9_RescuedAreNewest ==
    Partitioned =>
        \A k \in Rescued : \A p \in SeqSet(GroupPurge) :
            CreatedIn(Group, k) >= CreatedIn(Group, p)

(***************************************************************************)
(* C10: only tags older than keepDays are purged or deleted; a tag within  *)
(* keepDays is in the keep list before and after the minimal count.        *)
(***************************************************************************)
\* the tag is in a retention group and is older than the keepDays of its rule
StaleUnderItsRule(n) ==
    IF variant = "single"
    THEN n \in StaleNames(tagsFromRepo, Deref(purgeConfig).TagsKeepDays)
    ELSE \E key \in DOMAIN tagsFromRepo : n \in StaleNames(tagsFromRepo[key], key.TagsKeepDays)

\* C10: purge lists and delete requests hold only tags older than keepDays,
\* and the tags within keepDays stay in the keep list.
C10_OnlyStalePurged ==
    /\ (Filtered \/ Partitioned) =>
          /\ SeqSet(GroupPurge) \subseteq StaleNames(Group, GroupKeepDays)
          /\ SeqSet(Names(Group)) \ StaleNames(Group, GroupKeepDays) \subseteq SeqSet(GroupKeep)
    /\ \A n \in SeqSet(purgeTags) : StaleUnderItsRule(n)
    /\ \A i \in DOMAIN deleteCalls : StaleUnderItsRule(deleteCalls[i].tag)

C10_Witness ==
    /\ Analyzed
    /\ Rescued # {}
    /\ deleteCalls # <<>>
    /\ \E i \in DOMAIN Group : Delta(now, Group[i].created) = GroupKeepDays


(***************************************************************************)
(* C1: outside dry-run, one delete request per tag of the purge list, each *)
(* for the repository's full name and that tag, and no other request.      *)
(***************************************************************************)
C1_OneDeletePerPurgedTag ==
    (Analyzed /\ ~purgeDryRun) =>
        /\ Len(deleteCalls) = Len(purgeTags)
        /\ \A i \in DOMAIN deleteCalls :
              deleteCalls[i].repo = repo /\ deleteCalls[i].tag \in SeqSet(purgeTags)
        /\ \A t \in SeqSet(purgeTags) :
              Cardinality({ i \in DOMAIN deleteCalls : deleteCalls[i] = DeleteTag(repo, t) }) = 1

(***************************************************************************)
(* C5: the keep and purge lists of a repository are those the catalog, the *)
(* tags, their creation times, the rules and the time determine, whether   *)
(* or not the run is a dry run, and a dry run issues no delete request.    *)
(***************************************************************************)
Decision(k) == [keep |-> k.keep, purge |-> k.purge]

\* single: the lists for every order sort.Sort may leave the tags in
DecisionsSingle(config, r) ==
    LET scanned == ScanTagsSingle(r, config, ClientTags(r), 1, <<>>).tagsFromRepo
    IN { Decision(KeepMinimalCount(Len(sortedTags),
                                   FilterByDays(sortedTags, now, config.TagsKeepDays).keep,
                                   FilterByDays(sortedTags, now, config.TagsKeepDays).purge,
                                   config.TagsKeepCount)) :
            sortedTags \in SortSort(scanned) }

\* multi: the lists for every order the range over the map may visit the keys in
RECURSIVE DecisionsOfGroups(_, _)
DecisionsOfGroups(m, keys) ==
    IF keys = {} THEN { [keep |-> <<>>, purge |-> <<>>] }
    ELSE UNION { { [keep |-> first.keep \o rest.keep, purge |-> first.purge \o rest.purge] :
                      first \in { KeepMinimalCount(Len(m[key]),
                                      FilterByDays(m[key], now, key.TagsKeepDays).keep,
                                      FilterByDays(m[key], now, key.TagsKeepDays).purge,
                                      key.TagsKeepCount) },
                      rest \in DecisionsOfGroups(m, keys \ {key}) } :
                 key \in keys }

DecisionsMulti(config, r) ==
    LET scanned == ScanTagsMulti(r, config, ClientTags(r), 1, <<>>).tagsFromRepo
    IN DecisionsOfGroups(scanned, DOMAIN scanned)

\* what the inputs determine; purgeDryRun is not among them
Decisions ==
    LET config == Deref(MatchRepo(purgeTagsConfig, repo).config)
    IN IF variant = "single" THEN DecisionsSingle(config, repo)
       ELSE DecisionsMulti(config, repo)

\* C5: dry run or not, the keep and purge lists are those the other inputs
\* determine, and a dry run issues no delete request.
C5_DryRunSameDecision ==
    Analyzed =>
        /\ [keep |-> keepTags, purge |-> purgeTags] \in Decisions
        /\ purgeDryRun => deleteCalls = <<>>

C5_Witness == Analyzed /\ purgeDryRun /\ purgeTags # <<>> /\ keepTags # <<>>

(***************************************************************************)
(* C6: malformed regular expressions.                                      *)
(***************************************************************************)
NoDecision ==
    keepTags = <<>> /\ purgeTags = <<>> /\ deleteCalls = <<>> /\ result # "analyzed"

\* some repository rule, or some tag rule of the resolved rule, does not compile
AnyMalformed ==
    \/ \E i \in DOMAIN purgeTagsConfig : ~Compile(purgeTagsConfig[i].RepoRegex)
    \/ /\ purgeConfig # Nil
       /\ IF variant = "single" THEN ~Compile(Deref(purgeConfig).TagsRegex)
          ELSE \E i \in DOMAIN Deref(purgeConfig).Tags :
                  ~Compile(Deref(purgeConfig).Tags[i].TagsRegex)

\* a repository rule that does not compile, with no rule before it matching
ReachedBadRepoRule ==
    \E i \in DOMAIN purgeTagsConfig :
        /\ ~Compile(purgeTagsConfig[i].RepoRegex)
        /\ \A j \in 1..(i - 1) : ~FindStringIndex(purgeTagsConfig[j].RepoRegex, repo)

\* a tag rule of the resolved rule that does not compile, with some listed
\* tag that no tag rule before it matches
ReachedBadTagRule ==
    /\ purgeConfig # Nil
    /\ \E t \in SeqSet(tags) :
          IF variant = "single" THEN ~Compile(Deref(purgeConfig).TagsRegex)
          ELSE \E i \in DOMAIN Deref(purgeConfig).Tags :
                  /\ ~Compile(Deref(purgeConfig).Tags[i].TagsRegex)
                  /\ \A j \in 1..(i - 1) :
                        ~FindStringIndex(Deref(purgeConfig).Tags[j].TagsRegex, t)

\* C6 as claimed: a malformed regular expression anywhere in the rules, before
\* or after the rule that matches, leaves the repository without a decision.
C6_AnyMalformedAborts ==
    (pc = "returned" /\ AnyMalformed) => NoDecision

\* C6 amended: the repository is aborted, with no keep or purge decision and no
\* delete request, exactly when the resolution reaches the malformed regular
\* expression: a repository rule with no matching rule before it, or a tag
\* rule of the resolved rule that some listed tag reaches unmatched.  A
\* malformed rule after the matching one is never compiled.
C6_ReachedMalformedAborts ==
    pc = "returned" =>
        /\ (ReachedBadRepoRule \/ ReachedBadTagRule) <=> result = "regexError"
        /\ result = "regexError" => NoDecision

C6_Witness ==
    /\ pc = "returned"
    /\ result = "regexError"
    /\ ReachedBadTagRule
    /\ \E i \in DOMAIN purgeTagsConfig :
          ~Compile(purgeTagsConfig[i].RepoRegex) /\ ~ReachedBadRepoRule

(***************************************************************************)
(* C7: the first rule that matches, in declared order, is the one resolved *)
(* for the repository, and the first tag rule that matches for the tag.    *)
(***************************************************************************)
RepoMatches == { i \in DOMAIN purgeTagsConfig :
                    FindStringIndex(purgeTagsConfig[i].RepoRegex, repo) }
TagMatches(t) == { i \in DOMAIN Deref(purgeConfig).Tags :
                      FindStringIndex(Deref(purgeConfig).Tags[i].TagsRegex, t) }

\* C7: the resolved rule is the lowest-indexed rule matching the repository,
\* the appended global rule only when no configured rule matches, and every
\* grouped tag is under the lowest-indexed tag rule matching it.
C7_FirstMatchWins ==
    /\ purgeConfig # Nil =>
          \E i \in RepoMatches :
              /\ purgeTagsConfig[i] = Deref(purgeConfig)
              /\ \A j \in RepoMatches : i <= j
    /\ result = "noMatch" => RepoMatches = {}
    /\ (pc \notin {"start", "loop"} /\ purgeConfig = Nil /\ result # "regexError")
          => RepoMatches = {}
    /\ variant = "multi" =>
          \A key \in DOMAIN tagsFromRepo : \A n \in DOMAIN tagsFromRepo[key] :
              \E i \in TagMatches(tagsFromRepo[key][n].name) :
                  /\ Deref(purgeConfig).Tags[i] = key
                  /\ \A j \in TagMatches(tagsFromRepo[key][n].name) : i <= j

C7_Witness ==
    /\ variant = "multi"
    /\ Analyzed
    /\ Cardinality(RepoMatches) = 3
    /\ \E key \in DOMAIN tagsFromRepo : \E n \in DOMAIN tagsFromRepo[key] :
          Cardinality(TagMatches(tagsFromRepo[key][n].name)) = 2

(***************************************************************************)
(* C8: a tag that no tag rule of the resolved rule matches is in no        *)
(* retention group, in neither list, and in no delete request.             *)
(***************************************************************************)
Unmatched(t) ==
    /\ purgeConfig # Nil
    /\ IF variant = "single" THEN ~FindStringIndex(Deref(purgeConfig).TagsRegex, t)
       ELSE TagMatches(t) = {}

GroupedNames ==
    IF variant = "single" THEN SeqSet(Names(tagsFromRepo))
    ELSE UNION { SeqSet(Names(tagsFromRepo[key])) : key \in DOMAIN tagsFromRepo }

\* C8: a tag matching no tag rule of the resolved rule is in no group, in
\* neither list and in no delete request.
C8_UnmatchedTagSkipped ==
    \A t \in SeqSet(tags) :
        Unmatched(t) =>
            /\ t \notin GroupedNames
            /\ t \notin SeqSet(keepTags) \cup SeqSet(purgeTags)
            /\ t \notin SeqSet(keepTagsForThisConfig) \cup SeqSet(purgeTagsForThisConfig)
            /\ \A i \in DOMAIN deleteCalls : deleteCalls[i].tag # t

\* an unmatched tag that has a manifest and is older than the global keepDays
C8_Witness ==
    /\ Analyzed
    /\ deleteCalls # <<>>
    /\ \E t \in SeqSet(tags) :
          /\ Unmatched(t)
          /\ TagInfo(repo, t) # Missing
          /\ Delta(now, CreatedOf(TagInfo(repo, t))) > purgeTagsKeepDays

====
